---- MODULE Spec2Model ----
(***************************************************************************)
(* A model of create-ebook.py: the MarkdownToEPUB converter object, its    *)
(* public operations, the main() pipeline and the pure helpers they use    *)
(* (_extract_title, _natural_sort_key, image path stripping).              *)
(*                                                                         *)
(* Text is modelled as sequences of one-character strings, so that split,  *)
(* strip, startswith, slicing and comparison are computed as Python        *)
(* computes them.                                                          *)
(***************************************************************************)
EXTENDS Integers, Sequences, FiniteSets, TLC

\* ------------------------------------------------------------------------
\* Bounds of the model
\* ------------------------------------------------------------------------

\* Calls made on one converter object.
MaxCalls == 3

\* Lines of a document given to the title resolver.
MaxLines == 4

\* ------------------------------------------------------------------------
\* Characters and strings
\* ------------------------------------------------------------------------

NL == "\n"

\* The characters the model uses, in code point order.
CodePoints ==
  << "\n", " ", "#", "-", ".", "/", "0", "1", "2", "3", "4", "5", "6", "7",
     "8", "9", ":", "=", "A", "B", "C", "D", "E", "F", "G", "H", "I", "J",
     "K", "L", "M", "N", "O", "P", "Q", "R", "S", "T", "U", "V", "W", "X",
     "Y", "Z", "_", "a", "b", "c", "d", "e", "f", "g", "h", "i", "j", "k",
     "l", "m", "n", "o", "p", "q", "r", "s", "t", "u", "v", "w", "x", "y",
     "z" >>

Ord(c) == CHOOSE i \in 1..Len(CodePoints) : CodePoints[i] = c

Digits == << "0", "1", "2", "3", "4", "5", "6", "7", "8", "9" >>

IsDigit(c) == \E i \in 1..10 : Digits[i] = c

DigitValue(c) == (CHOOSE i \in 1..10 : Digits[i] = c) - 1

UpperCase ==
  << "A", "B", "C", "D", "E", "F", "G", "H", "I", "J", "K", "L", "M", "N",
     "O", "P", "Q", "R", "S", "T", "U", "V", "W", "X", "Y", "Z" >>

LowerCase ==
  << "a", "b", "c", "d", "e", "f", "g", "h", "i", "j", "k", "l", "m", "n",
     "o", "p", "q", "r", "s", "t", "u", "v", "w", "x", "y", "z" >>

IsUpper(c) == \E i \in 1..Len(UpperCase) : UpperCase[i] = c

IsLower(c) == \E i \in 1..Len(LowerCase) : LowerCase[i] = c

IsLetter(c) == IsUpper(c) \/ IsLower(c)

Lower(c) ==
  IF IsUpper(c)
    THEN LowerCase[CHOOSE i \in 1..Len(UpperCase) : UpperCase[i] = c]
    ELSE c

Upper(c) ==
  IF IsLower(c)
    THEN UpperCase[CHOOSE i \in 1..Len(LowerCase) : LowerCase[i] = c]
    ELSE c

LowerStr(s) == [i \in 1..Len(s) |-> Lower(s[i])]

IsSpace(c) == c \in {" ", "\n"}

Drop(s, n) == SubSeq(s, n + 1, Len(s))

StartsWith(s, p) == Len(p) <= Len(s) /\ SubSeq(s, 1, Len(p)) = p

EndsWith(s, p) ==
  Len(p) <= Len(s) /\ SubSeq(s, Len(s) - Len(p) + 1, Len(s)) = p

RECURSIVE LStrip(_)
LStrip(s) ==
  IF s # <<>> /\ IsSpace(Head(s)) THEN LStrip(Tail(s)) ELSE s

RECURSIVE RStrip(_)
RStrip(s) ==
  IF s # <<>> /\ IsSpace(s[Len(s)])
    THEN RStrip(SubSeq(s, 1, Len(s) - 1))
    ELSE s

Strip(s) == RStrip(LStrip(s))

\* str.split(sep) for a one-character separator: always at least one piece.
RECURSIVE Split(_, _)
Split(s, sep) ==
  IF \A i \in 1..Len(s) : s[i] # sep
    THEN << s >>
    ELSE LET k == CHOOSE i \in 1..Len(s) :
                    s[i] = sep /\ \A j \in 1..(i - 1) : s[j] # sep
         IN  << SubSeq(s, 1, k - 1) >> \o Split(Drop(s, k), sep)

RECURSIVE Join(_, _)
Join(parts, sep) ==
  IF parts = <<>> THEN <<>>
  ELSE IF Len(parts) = 1 THEN parts[1]
  ELSE parts[1] \o sep \o Join(Tail(parts), sep)

\* Python's ordering of two strings: code point by code point, a proper
\* prefix first.
RECURSIVE StrLess(_, _)
StrLess(a, b) ==
  IF b = <<>> THEN FALSE
  ELSE IF a = <<>> THEN TRUE
  ELSE IF Head(a) # Head(b) THEN Ord(Head(a)) < Ord(Head(b))
  ELSE StrLess(Tail(a), Tail(b))

\* ------------------------------------------------------------------------
\* _extract_title
\* ------------------------------------------------------------------------

\* yaml.safe_load(yaml_content). The module imports os, re, uuid, pathlib,
\* typing, markdown, ebooklib, bs4, json and sys, and never yaml: evaluating
\* the name raises NameError, inside the try of the front-matter branch.
yaml_safe_load(yaml_content) ==
  [raised |-> TRUE, is_dict |-> FALSE, has_title |-> FALSE, title |-> <<>>]

\* lines.index(x): the 1-based position of the first element equal to x,
\* 0 when there is none (Python raises ValueError).
ListIndex(lines, x) ==
  IF \E i \in 1..Len(lines) : lines[i] = x
    THEN CHOOSE i \in 1..Len(lines) :
           lines[i] = x /\ \A j \in 1..(i - 1) : lines[j] # x
    ELSE 0

\* The line number (1-based) of the closing --- of a front-matter block, 0
\* when there is none: the loop over enumerate(lines[1:], 1).
YamlEnd(lines) ==
  IF \E i \in 2..Len(lines) : Strip(lines[i]) = << "-", "-", "-" >>
    THEN CHOOSE i \in 2..Len(lines) :
           /\ Strip(lines[i]) = << "-", "-", "-" >>
           /\ \A j \in 2..(i - 1) : Strip(lines[j]) # << "-", "-", "-" >>
    ELSE 0

\* The front-matter branch: what it returns, if it returns.
FrontMatterTitle(lines) ==
  IF Len(lines) > 0 /\ Strip(lines[1]) = << "-", "-", "-" >> /\ YamlEnd(lines) > 0
    THEN LET yaml_content == Join(SubSeq(lines, 2, YamlEnd(lines) - 1), << NL >>)
             metadata == yaml_safe_load(yaml_content)
         IN  IF ~metadata.raised /\ metadata.is_dict /\ metadata.has_title
               THEN [returned |-> TRUE, title |-> metadata.title]
               ELSE [returned |-> FALSE, title |-> <<>>]
    ELSE [returned |-> FALSE, title |-> <<>>]

AllEquals(s) == \A i \in 1..Len(s) : s[i] = "="

\* Path.stem: the name without its last suffix.
Stem(name) ==
  IF \E i \in 2..(Len(name) - 1) : name[i] = "."
    THEN LET k == CHOOSE i \in 2..(Len(name) - 1) :
                    name[i] = "." /\ \A j \in (i + 1)..(Len(name) - 1) : name[j] # "."
         IN  SubSeq(name, 1, k - 1)
    ELSE name

\* str.replace(old, new) for one-character strings.
Replace(s, old, new) == [i \in 1..Len(s) |-> IF s[i] = old THEN new ELSE s[i]]

\* str.title(): a letter is upper-cased after a non-letter, lower-cased after
\* a letter.
TitleCase(s) ==
  [i \in 1..Len(s) |->
     IF i = 1 \/ ~IsLetter(s[i - 1]) THEN Upper(s[i]) ELSE Lower(s[i])]

FilenameTitle(name) == TitleCase(Replace(Replace(Stem(name), "_", " "), "-", " "))

\* The loop "for line in lines" from its k-th line on, then the fallback.
RECURSIVE HeadingScan(_, _, _)
HeadingScan(lines, k, name) ==
  IF k > Len(lines)
    THEN [raised |-> FALSE, title |-> FilenameTitle(name)]
    ELSE LET line == Strip(lines[k])
             idx  == ListIndex(lines, line)
         IN  IF StartsWith(line, << "#", " " >>)
               THEN [raised |-> FALSE, title |-> Strip(Drop(line, 2))]
             ELSE IF line # <<>> /\ idx = 0
               THEN [raised |-> TRUE, title |-> <<>>]
             ELSE IF line # <<>> /\ idx < Len(lines)
                     /\ Strip(lines[idx + 1]) # <<>>
                     /\ AllEquals(Strip(lines[idx + 1]))
               THEN [raised |-> FALSE, title |-> line]
             ELSE HeadingScan(lines, k + 1, name)

\* _extract_title(md_content, md_path): raised when ValueError leaves it.
ExtractTitle(md_content, name) ==
  LET lines == Split(md_content, NL)
      fm    == FrontMatterTitle(lines)
  IN  IF fm.returned
        THEN [raised |-> FALSE, title |-> fm.title]
        ELSE HeadingScan(lines, 1, name)

\* ------------------------------------------------------------------------
\* _natural_sort_key and the order of discovery
\* ------------------------------------------------------------------------

RECURSIVE DigitRunLen(_)
DigitRunLen(s) ==
  IF s # <<>> /\ IsDigit(Head(s)) THEN 1 + DigitRunLen(Tail(s)) ELSE 0

RECURSIVE TextRunLen(_)
TextRunLen(s) ==
  IF s # <<>> /\ ~IsDigit(Head(s)) THEN 1 + TextRunLen(Tail(s)) ELSE 0

\* int(c) of a run of digits.
RECURSIVE IntOf(_)
IntOf(d) ==
  IF d = <<>> THEN 0
  ELSE 10 * IntOf(SubSeq(d, 1, Len(d) - 1)) + DigitValue(d[Len(d)])

\* [int(c) if c.isdigit() else c.lower() for c in re.split(r"(\d+)", text)]:
\* the pieces alternate text, digits, text, ..., and begin and end with a
\* (possibly empty) text piece.
RECURSIVE natural_sort_key(_)
natural_sort_key(text) ==
  LET t    == TextRunLen(text)
      rest == Drop(text, t)
      d    == DigitRunLen(rest)
      word == [is_int |-> FALSE, n |-> 0, s |-> LowerStr(SubSeq(text, 1, t))]
  IN  IF rest = <<>>
        THEN << word >>
        ELSE << word, [is_int |-> TRUE, n |-> IntOf(SubSeq(rest, 1, d)), s |-> <<>>] >>
             \o natural_sort_key(Drop(rest, d))

\* Python's ordering of two such keys: element by element, a proper prefix
\* first.
RECURSIVE KeyLess(_, _)
KeyLess(a, b) ==
  IF b = <<>> THEN FALSE
  ELSE IF a = <<>> THEN TRUE
  ELSE IF Head(a) = Head(b) THEN KeyLess(Tail(a), Tail(b))
  ELSE IF Head(a).is_int THEN Head(a).n < Head(b).n
  ELSE StrLess(Head(a).s, Head(b).s)

\* The orders sorted(set(md_files), key=...) can produce: every arrangement of
\* the set in which no file's key is greater than a later file's (files with
\* equal keys come in the set's iteration order, which is not fixed).
SortedByKey(files) ==
  { q \in [1..Cardinality(files) -> files] :
      /\ \A i, j \in 1..Cardinality(files) : i # j => q[i] # q[j]
      /\ \A i, j \in 1..Cardinality(files) :
           i < j => ~KeyLess(natural_sort_key(q[j].name), natural_sort_key(q[i].name)) }

\* directory.glob("*.md") and directory.glob("*.markdown").
MarkdownMatches(name) ==
  \/ EndsWith(name, << ".", "m", "d" >>)
  \/ EndsWith(name, << ".", "m", "a", "r", "k", "d", "o", "w", "n" >>)

\* ------------------------------------------------------------------------
\* Paths
\* ------------------------------------------------------------------------

RECURSIVE DropDotParts(_)
DropDotParts(parts) ==
  IF parts = <<>> THEN <<>>
  ELSE IF Head(parts) = <<>> \/ Head(parts) = << "." >>
    THEN DropDotParts(Tail(parts))
    ELSE << Head(parts) >> \o DropDotParts(Tail(parts))

\* str(Path(s)): empty and "." components and a trailing separator are
\* dropped; a path with no component left is ".".
PathStr(s) ==
  LET parts == DropDotParts(Split(s, "/"))
      body  == Join(parts, << "/" >>)
  IN  IF StartsWith(s, << "/" >>) THEN << "/" >> \o body
      ELSE IF parts = <<>> THEN << "." >>
      ELSE body

\* str(Path(directory_path) / rel), as glob yields it: no "./" prefix for the
\* current directory.
ChildStr(directory_path, rel) ==
  IF PathStr(directory_path) = << "." >>
    THEN rel
    ELSE PathStr(directory_path) \o << "/" >> \o rel

\* Path.name: the last component.
BaseName(path) == LET parts == Split(path, "/") IN parts[Len(parts)]

\* Path.suffix: the last suffix of the name, with its dot.
Suffix(path) == Drop(BaseName(path), Len(Stem(BaseName(path))))

\* Python's ordering of two lists of strings.
RECURSIVE PartsLess(_, _)
PartsLess(a, b) ==
  IF b = <<>> THEN FALSE
  ELSE IF a = <<>> THEN TRUE
  ELSE IF Head(a) = Head(b) THEN PartsLess(Tail(a), Tail(b))
  ELSE StrLess(Head(a), Head(b))

\* Path.__lt__: by components.
PathLess(a, b) == PartsLess(Split(a, "/"), Split(b, "/"))

ImageExtensions ==
  { << ".", "j", "p", "g" >>, << ".", "j", "p", "e", "g" >>, << ".", "p", "n", "g" >>,
    << ".", "g", "i", "f" >>, << ".", "b", "m", "p" >>, << ".", "t", "i", "f", "f" >>,
    << ".", "w", "e", "b", "p" >>, << ".", "s", "v", "g" >> }

UpperStr(s) == [i \in 1..Len(s) |-> Upper(s[i])]

\* The sixteen patterns of find_images_glob: each extension in lower case
\* and in upper case.
ImageMatches(rel) ==
  Suffix(rel) \in ImageExtensions \cup { UpperStr(e) : e \in ImageExtensions }

\* find_images_glob(directory): sorted(set(image_files)), as relative paths
\* of files under the directory.
find_images_glob(rels) ==
  LET found == { r \in rels : ImageMatches(r) }
  IN  CHOOSE q \in [1..Cardinality(found) -> found] :
        \A i, j \in 1..Cardinality(found) : i < j => PathLess(q[i], q[j])

\* image_media_type(image_path)
image_media_type(path) ==
  LET ext == LowerStr(Suffix(path))
  IN  IF ext \in { << ".", "j", "p", "g" >>, << ".", "j", "p", "e", "g" >> }
        THEN "image/jpeg"
      ELSE IF ext = << ".", "p", "n", "g" >> THEN "image/png"
      ELSE IF ext = << ".", "g", "i", "f" >> THEN "image/gif"
      ELSE "image/png"

\* The EpubImage add_image_file builds for the file at rel under
\* directory_path: file_name is str(img_path)[len(parent_path) + 1:].
ImageItem(rel, parent_path) ==
  LET img_path   == ChildStr(parent_path, rel)
      prefix_len == Len(parent_path) + 1
  IN  [ kind       |-> "image",
        uid        |-> BaseName(img_path),
        file_name  |-> Drop(img_path, prefix_len),
        media_type |-> image_media_type(img_path) ]

\* ------------------------------------------------------------------------
\* The converter object and its operations
\*
\* An operation is an operator from the object (a record o of the fields
\* below, with the effects on the outside world it has had) to the object
\* after the call; o.ret is what the call returned.
\*   chapters    self.chapters
\*   links       per chapter, the stylesheet items linked to it
\*   spine       self.spine
\*   items       self.book.items, the manifest
\*   cover       the book's cover, "none" until set_cover
\*   toc         self.book.toc
\*   book_spine  self.book.spine
\*   md_dirty    self.md holds state of a convert() not yet reset()
\*   md_calls    the calls made on self.md during the last operation
\*   stdout      the lines printed during the last operation
\*   dirs_made   the output directories created
\*   written     the calls of epub.write_epub
\*   arg_files   the names of the sorted Markdown files the last
\*               add_markdown_directory went through
\* ------------------------------------------------------------------------

\* str(n) of a natural number.
RECURSIVE Decimal(_)
Decimal(n) ==
  IF n < 10 THEN << Digits[n + 1] >>
  ELSE Decimal(n \div 10) \o << Digits[(n % 10) + 1] >>

\* __init__
NewConverter ==
  [ chapters   |-> <<>>,
    links      |-> <<>>,
    spine      |-> << [kind |-> "nav"] >>,
    items      |-> <<>>,
    cover      |-> "none",
    toc        |-> <<>>,
    book_spine |-> <<>>,
    md_dirty   |-> FALSE,
    md_calls   |-> <<>>,
    stdout     |-> <<>>,
    dirs_made  |-> {},
    written    |-> <<>>,
    arg_files  |-> <<>>,
    ret        |-> FALSE ]

\* The state an operation starts from: nothing called or printed yet.
Enter(o) == [o EXCEPT !.md_calls = <<>>, !.stdout = <<>>, !.arg_files = <<>>]

None == <<>>

\* A printed line: its fixed text and the path or name it mentions. The
\* "chapter added" line also carries the chapter's title.
Printed(line, name) == [line |-> line, name |-> name, title |-> None]

\* A numbering from zero: the chapter's index, not its position.
chapter_id_from_zero(o) ==
  << "c", "h", "a", "p", "t", "e", "r", "_" >> \o Decimal(Len(o.chapters))

\* f"chapter_{len(self.chapters) + 1}"
chapter_id(o) ==
  << "c", "h", "a", "p", "t", "e", "r", "_" >> \o Decimal(Len(o.chapters) + 1)

\* epub.EpubHtml(title=chapter_title, file_name=f"{chapter_id}.xhtml", ...)
EpubHtml(id, title) ==
  [ kind       |-> "chapter",
    chapter_id |-> id,
    title      |-> title,
    file_name  |-> id \o << ".", "x", "h", "t", "m", "l" >> ]

\* self.md.convert(md_content)
MdConvert(o) ==
  [o EXCEPT !.md_dirty = TRUE, !.md_calls = Append(@, "convert")]

\* self.md.reset()
MdReset(o) ==
  [o EXCEPT !.md_dirty = FALSE, !.md_calls = Append(@, "reset")]

\* The except branch of add_markdown_file.
FileFailed(o, f) ==
  [o EXCEPT !.stdout = Append(@, Printed("failed to add file", f.name)),
            !.ret = FALSE]

\* The chapter put right after the navigation entry, before the chapters
\* added earlier.
SpineInsertAfterNav(spine, chapter) == << Head(spine), chapter >> \o Tail(spine)

\* self.spine.append(chapter)
SpineAppend(spine, chapter) == Append(spine, chapter)

\* The three appends and what follows them in add_markdown_file.
ChapterAdded(o, f, chapter) ==
  MdReset(
    [o EXCEPT !.items    = Append(@, chapter),
              !.chapters = Append(@, chapter),
              !.links    = Append(@, 0),
              !.spine    = SpineAppend(@, chapter),
              !.stdout   = Append(@, [line |-> "chapter added", name |-> f.name, title |-> chapter.title]),
              !.ret      = TRUE])

\* add_markdown_file(md_path, chapter_title), in the running operation. f is
\* the file: its name, whether open() and read() succeed, whether convert()
\* succeeds on its text, and its text.
add_markdown_file(o, f, chapter_title) ==
  IF ~f.readable THEN FileFailed(o, f)
  ELSE IF ~f.convert_ok THEN FileFailed(MdConvert(o), f)
  ELSE LET o1       == MdConvert(o)
           resolved == IF chapter_title = None
                         THEN ExtractTitle(f.text, f.name)
                         ELSE [raised |-> FALSE, title |-> chapter_title]
       IN  IF resolved.raised
             THEN FileFailed(o1, f)
             ELSE ChapterAdded(o1, f, EpubHtml(chapter_id(o1), resolved.title))

\* add_image_file(img_path, parent_path), in the running operation.
add_image_file(o, img, parent_path) ==
  IF ~img.readable
    THEN [o EXCEPT !.stdout = Append(@, Printed("failed to add file", img.name)),
                   !.ret = FALSE]
    ELSE [o EXCEPT !.items = Append(@, ImageItem(img.name, parent_path)),
                   !.ret = TRUE]

\* for md_file in md_files: if self.add_markdown_file(md_file): success_count += 1
RECURSIVE AddFiles(_, _)
AddFiles(acc, md_files) ==
  IF md_files = <<>> THEN acc
  ELSE LET o1 == add_markdown_file(acc.o, Head(md_files), None)
       IN  AddFiles([o |-> o1,
                     success_count |-> acc.success_count + (IF o1.ret THEN 1 ELSE 0)],
                    Tail(md_files))

\* for img_file in img_files: self.add_image_file(img_file, directory_path)
RECURSIVE AddImages(_, _, _)
AddImages(o, img_files, directory_path) ==
  IF img_files = <<>> THEN o
  ELSE AddImages(add_image_file(o, Head(img_files), directory_path),
                 Tail(img_files), directory_path)

\* A result that does not look at the count.
DirectoryResultAlways(success_count) == success_count >= 0

\* return success_count > 0
DirectoryResult(success_count) == success_count > 0

\* The Markdown files of a directory: glob(pattern) and glob("*.markdown")
\* match in the directory itself, not below it.
MarkdownFiles(entries) ==
  { e \in entries : MarkdownMatches(e.name) /\ \A i \in 1..Len(e.name) : e.name[i] # "/" }

\* The image files of a directory tree, in find_images_glob's order.
ImageFiles(entries) ==
  LET order == find_images_glob({ e.name : e \in entries })
  IN  [i \in 1..Len(order) |-> CHOOSE e \in entries : e.name = order[i]]

\* add_markdown_directory(directory_path), in the running operation. exists
\* is directory.exists(), entries the files under the directory, md_files
\* the sorted list of its Markdown files.
add_markdown_directory(o, directory_path, exists, entries, md_files) ==
  IF ~exists
    THEN [o EXCEPT !.stdout = Append(@, Printed("directory does not exist", directory_path)),
                   !.ret = FALSE]
  ELSE IF md_files = <<>>
    THEN [o EXCEPT !.stdout = Append(@, Printed("no markdown files found", directory_path)),
                   !.ret = FALSE]
  ELSE LET o0    == [o EXCEPT !.arg_files = [i \in 1..Len(md_files) |-> md_files[i].name]]
           added == AddFiles([o |-> o0, success_count |-> 0], md_files)
           o2    == AddImages(added.o, ImageFiles(entries), directory_path)
       IN  [o2 EXCEPT !.ret = DirectoryResult(added.success_count)]

\* epub.EpubItem(uid="style_default", file_name="style/default.css", ...)
CssItem(css_content) ==
  [ kind      |-> "css",
    uid       |-> "style_default",
    file_name |-> "style/default.css",
    content   |-> css_content ]

\* _get_default_css(): the built-in stylesheet, by its first rule's selector.
get_default_css == << "b", "o", "d", "y" >>

\* add_custom_css(css_content), in the running operation: None stands for
\* the default stylesheet of _get_default_css.
add_custom_css(o, css_content) ==
  [o EXCEPT !.items  = Append(@, CssItem(IF css_content = None THEN get_default_css ELSE css_content)),
            !.links  = [i \in 1..Len(@) |-> @[i] + 1],
            !.stdout = Append(@, Printed("css styles added", None)),
            !.ret    = TRUE]

\* add_cover_image(image_path), in the running operation. A file that
\* cannot be opened raises in open(). No line of the function or of the
\* module assigns ext, so for a file that was read f"cover{ext}" raises
\* NameError before set_cover is called. The except branch returns False.
add_cover_image(o, image) ==
  IF ~image.exists
    THEN [o EXCEPT !.stdout = Append(@, Printed("cover image not found", image.name)),
                   !.ret = FALSE]
  ELSE IF ~image.readable
    THEN [o EXCEPT !.stdout = Append(@, Printed("failed to add cover: cannot open", image.name)),
                   !.ret = FALSE]
    ELSE [o EXCEPT !.stdout = Append(@, Printed("failed to add cover: name 'ext' is not defined", image.name)),
                   !.ret = FALSE]

\* epub.Link(chapter.file_name, chapter.title, chapter.id)
TocOf(chs) ==
  [i \in 1..Len(chs) |-> [href |-> chs[i].file_name, title |-> chs[i].title]]

\* A precondition that asks for more than one chapter.
EmptyBookOrSingle(o) == Len(o.chapters) <= 1

\* if not self.chapters: ... return False
EmptyBook(o) == o.chapters = <<>>

\* generate_epub(output_path), in the running operation. mkdir_ok: the
\* output directory exists or can be created; write_ok: write_epub returns.
generate_epub(o, output_path, mkdir_ok, write_ok) ==
  IF EmptyBook(o)
    THEN [o EXCEPT !.stdout = Append(@, Printed("no chapter content", None)),
                   !.ret = FALSE]
  ELSE LET o1 == add_custom_css(o, None)
           o2 == [o1 EXCEPT !.toc        = TocOf(o1.chapters),
                            !.items      = @ \o << [kind |-> "ncx"], [kind |-> "nav"] >>,
                            !.book_spine = o1.spine]
           failed(x) == [x EXCEPT !.stdout = Append(@, Printed("failed to generate", output_path.file)),
                                  !.ret = FALSE]
       IN  IF ~mkdir_ok THEN failed(o2)
           ELSE LET o3 == [o2 EXCEPT !.dirs_made = @ \cup {output_path.parent},
                                     !.written   = Append(@, [path  |-> output_path.file,
                                                              spine |-> o2.book_spine,
                                                              toc   |-> o2.toc,
                                                              items |-> o2.items])]
                IN  IF ~write_ok THEN failed(o3)
                    ELSE [o3 EXCEPT !.stdout = Append(@, Printed("generated", output_path.file)),
                                    !.ret = TRUE]

\* main(): argv1 is the directory argument, fs what the file system holds
\* for it.
main(argv1, fs) ==
  LET markdown_dir == PathStr(argv1)
      parts        == Split(markdown_dir, "/")
      title        == parts[Len(parts)]
      output_file  == [parent |-> << ".", "/", "o", "u", "t", "p", "u", "t" >>,
                       file   |-> title \o << ".", "e", "p", "u", "b" >>]
      cover_path   == markdown_dir \o << "/", "c", "o", "v", "e", "r", ".", "p", "n", "g" >>
      o1 == add_markdown_directory(NewConverter, markdown_dir, fs.exists, fs.entries, fs.md_files)
      o2 == IF fs.cover_exists
              THEN add_cover_image(o1, [name |-> cover_path, exists |-> TRUE,
                                        readable |-> fs.cover_readable])
              ELSE o1
  IN  IF ~o1.ret
        THEN [o1 EXCEPT !.stdout = Append(@, Printed("conversion terminated", None))]
        ELSE generate_epub(o2, output_file, fs.mkdir_ok, fs.write_ok)

\* ------------------------------------------------------------------------
\* State
\* ------------------------------------------------------------------------

VARIABLES
  chapters, links, spine, items, cover, toc, book_spine,  \* the converter
  md_dirty, md_calls,                                      \* its Markdown parser
  stdout, dirs_made, written,                              \* its effects
  arg_files,                                               \* the last directory's files
  ret,                                                     \* the last call's result
  last_op,                                                 \* the last call made
  calls,                                                   \* how many were made
  md_content, md_name, title_out,                          \* _extract_title alone
  parent_path, img_rel, img_item                           \* add_image_file alone

conv_vars ==
  << chapters, links, spine, items, cover, toc, book_spine, md_dirty, md_calls,
     stdout, dirs_made, written, arg_files, ret, last_op, calls >>

title_vars == << md_content, md_name, title_out >>

image_vars == << parent_path, img_rel, img_item >>

vars == << conv_vars, title_vars, image_vars >>

\* The converter as a record.
Self ==
  [ chapters   |-> chapters,
    links      |-> links,
    spine      |-> spine,
    items      |-> items,
    cover      |-> cover,
    toc        |-> toc,
    book_spine |-> book_spine,
    md_dirty   |-> md_dirty,
    md_calls   |-> md_calls,
    stdout     |-> stdout,
    dirs_made  |-> dirs_made,
    written    |-> written,
    arg_files  |-> arg_files,
    ret        |-> ret ]

\* The converter becomes o.
Becomes(o) ==
  /\ chapters'   = o.chapters
  /\ links'      = o.links
  /\ spine'      = o.spine
  /\ items'      = o.items
  /\ cover'      = o.cover
  /\ toc'        = o.toc
  /\ book_spine' = o.book_spine
  /\ md_dirty'   = o.md_dirty
  /\ md_calls'   = o.md_calls
  /\ stdout'     = o.stdout
  /\ dirs_made'  = o.dirs_made
  /\ written'    = o.written
  /\ arg_files'  = o.arg_files
  /\ ret'        = o.ret

\* ------------------------------------------------------------------------
\* Inputs
\* ------------------------------------------------------------------------

Pending == [raised |-> FALSE, title |-> <<>>, done |-> FALSE]

NoImage == [kind |-> "none"]

MdNames == { << "2", ".", "m", "d" >>,
             << "1", "0", ".", "m", "a", "r", "k", "d", "o", "w", "n" >> }

ImageNames == { << "s", "u", "b", "/", "b", ".", "j", "p", "g" >> }

\* A text with a level-1 heading, one without any heading, and one whose
\* first line is indented.
Texts == { << "#", " ", "A" >>,
           << "p" >>,
           << " ", "x", NL, "#", " ", "A" >> }

\* What a Markdown file can be: unreadable, refused by the converter, or
\* read and converted with one of the texts.
MdFiles ==
  { [name |-> n, readable |-> FALSE, convert_ok |-> TRUE, text |-> <<>>] : n \in MdNames }
  \cup { [name |-> n, readable |-> TRUE, convert_ok |-> FALSE, text |-> << "p" >>] : n \in MdNames }
  \cup { [name |-> n, readable |-> TRUE, convert_ok |-> TRUE, text |-> t] : n \in MdNames, t \in Texts }

\* What an image file can be: readable or not.
ImageFilesIn ==
  { [name |-> n, readable |-> r, convert_ok |-> TRUE, text |-> <<>>] :
      n \in ImageNames, r \in BOOLEAN }

\* The contents a directory can have: at most one file of each name.
Listings ==
  UNION { { { f[n] : n \in present } :
              f \in { g \in [present -> MdFiles \cup ImageFilesIn] :
                        \A n \in present : g[n].name = n } } :
          present \in SUBSET (MdNames \cup ImageNames) }

Docs == << "d", "o", "c", "s" >>

OutputPath == [parent |-> << "o", "u", "t" >>, file |-> << "b", ".", "e", "p", "u", "b" >>]

CoverPng == << "c", "o", "v", "e", "r", ".", "p", "n", "g" >>

\* ------------------------------------------------------------------------
\* The calls on a converter, and main()
\* ------------------------------------------------------------------------

Init ==
  /\ chapters   = NewConverter.chapters
  /\ links      = NewConverter.links
  /\ spine      = NewConverter.spine
  /\ items      = NewConverter.items
  /\ cover      = NewConverter.cover
  /\ toc        = NewConverter.toc
  /\ book_spine = NewConverter.book_spine
  /\ md_dirty   = NewConverter.md_dirty
  /\ md_calls   = NewConverter.md_calls
  /\ stdout     = NewConverter.stdout
  /\ dirs_made  = NewConverter.dirs_made
  /\ written    = NewConverter.written
  /\ arg_files  = NewConverter.arg_files
  /\ ret        = NewConverter.ret
  /\ last_op = "init"
  /\ calls = 0
  /\ md_content = <<>>
  /\ md_name = <<>>
  /\ title_out = Pending
  /\ parent_path = <<>>
  /\ img_rel = <<>>
  /\ img_item = NoImage

\* A call is made on a converter that main() did not run to its end.
CanCall == calls < MaxCalls /\ last_op # "main"

Called(op) ==
  /\ last_op' = op
  /\ calls' = calls + 1
  /\ UNCHANGED << title_vars, image_vars >>

AddMarkdownFile ==
  /\ CanCall
  /\ \E f \in MdFiles, chapter_title \in {None, << "X" >>} :
       Becomes(add_markdown_file(Enter(Self), f, chapter_title))
  /\ Called("add_markdown_file")

\* The directory is loaded into a book that holds nothing yet, as main()
\* does (calls that added nothing may have come before); a missing directory
\* has no entries.
AddMarkdownDirectory ==
  /\ CanCall
  /\ chapters = <<>>
  /\ items = <<>>
  /\ \E exists \in BOOLEAN :
     \E entries \in (IF exists THEN Listings ELSE {{}}) :
       \E md_files \in SortedByKey(MarkdownFiles(entries)) :
         Becomes(add_markdown_directory(Enter(Self), Docs, exists, entries, md_files))
  /\ Called("add_markdown_directory")

AddCustomCss ==
  /\ CanCall
  /\ \E css_content \in {None, << "p" >>} :
       Becomes(add_custom_css(Enter(Self), css_content))
  /\ Called("add_custom_css")

AddCoverImage ==
  /\ CanCall
  /\ \E exists \in BOOLEAN, readable \in BOOLEAN :
       Becomes(add_cover_image(Enter(Self), [name |-> CoverPng, exists |-> exists,
                                             readable |-> readable]))
  /\ Called("add_cover_image")

GenerateEpub ==
  /\ CanCall
  /\ \E mkdir_ok \in BOOLEAN, write_ok \in BOOLEAN :
       Becomes(generate_epub(Enter(Self), OutputPath, mkdir_ok, write_ok))
  /\ Called("generate_epub")

Main ==
  /\ last_op = "init"
  /\ \E argv1 \in {Docs, Docs \o << "/" >>}, exists \in BOOLEAN,
        cover_exists \in BOOLEAN, cover_readable \in BOOLEAN,
        mkdir_ok \in BOOLEAN, write_ok \in BOOLEAN :
     \E entries \in (IF exists THEN Listings ELSE {{}}) :
       \E md_files \in SortedByKey(MarkdownFiles(entries)) :
         Becomes(main(argv1, [exists |-> exists, entries |-> entries, md_files |-> md_files,
                              cover_exists |-> cover_exists, cover_readable |-> cover_readable,
                              mkdir_ok |-> mkdir_ok, write_ok |-> write_ok]))
  /\ Called("main")

Next ==
  \/ AddMarkdownFile
  \/ AddMarkdownDirectory
  \/ AddCustomCss
  \/ AddCoverImage
  \/ GenerateEpub
  \/ Main

Spec == Init /\ [][Next]_vars

\* ------------------------------------------------------------------------
\* _extract_title on its own: every document of at most MaxLines lines
\* ------------------------------------------------------------------------

Dashes == << "-", "-", "-" >>

\* The lines documents are made of: the front-matter delimiter, a title
\* entry, a level-1 heading, a padded heading, an indented line, a plain
\* line, a line of = characters and a blank line.
LinePool ==
  { Dashes,
    << "t", "i", "t", "l", "e", ":", " ", "F" >>,
    << "#", " ", "B" >>,
    << " ", "#", " ", "B", " " >>,
    << " ", "x" >>,
    << "H" >>,
    << "=", "=" >>,
    <<>> }

TitleDocs ==
  UNION { { Join(ls, << NL >>) : ls \in [1..n -> LinePool] } : n \in 1..MaxLines }

InitTitle ==
  /\ chapters   = NewConverter.chapters
  /\ links      = NewConverter.links
  /\ spine      = NewConverter.spine
  /\ items      = NewConverter.items
  /\ cover      = NewConverter.cover
  /\ toc        = NewConverter.toc
  /\ book_spine = NewConverter.book_spine
  /\ md_dirty   = NewConverter.md_dirty
  /\ md_calls   = NewConverter.md_calls
  /\ stdout     = NewConverter.stdout
  /\ dirs_made  = NewConverter.dirs_made
  /\ written    = NewConverter.written
  /\ arg_files  = NewConverter.arg_files
  /\ ret        = NewConverter.ret
  /\ last_op = "init"
  /\ calls = 0
  /\ md_content \in TitleDocs
  /\ md_name \in MdNames
  /\ title_out = Pending
  /\ parent_path = <<>>
  /\ img_rel = <<>>
  /\ img_item = NoImage

ResolveTitle ==
  /\ ~title_out.done
  /\ title_out' = [raised |-> ExtractTitle(md_content, md_name).raised,
                    title  |-> ExtractTitle(md_content, md_name).title,
                    done   |-> TRUE]
  /\ UNCHANGED << conv_vars, md_content, md_name, image_vars >>

NextTitle == ResolveTitle

SpecTitle == InitTitle /\ [][NextTitle]_vars

\* ------------------------------------------------------------------------
\* add_image_file's path computation on its own
\* ------------------------------------------------------------------------

\* Root directory strings: plain, with a trailing separator, the current
\* directory, relative with a leading "./", nested, and absolute.
Roots ==
  { Docs,
    Docs \o << "/" >>,
    << "." >>,
    << ".", "/" >>,
    << ".", "/" >> \o Docs,
    << "a", "/" >> \o Docs,
    << "a", "/" >> \o Docs \o << "/" >>,
    << "/", "t" >>,
    << "/", "t", "/" >> }

Rels ==
  { << "a", ".", "p", "n", "g" >>,
    << "a", ".", "P", "N", "G" >>,
    << "s", "u", "b", "/", "b", ".", "j", "p", "g" >>,
    << "s", "u", "b", "/", "c", ".", "g", "i", "f" >>,
    << "x", "/", "y", "/", "d", ".", "s", "v", "g" >>,
    << "e", ".", "j", "p", "e", "g" >>,
    << "s", "u", "b", "/", "f", ".", "W", "E", "B", "P" >> }

InitImage ==
  /\ chapters   = NewConverter.chapters
  /\ links      = NewConverter.links
  /\ spine      = NewConverter.spine
  /\ items      = NewConverter.items
  /\ cover      = NewConverter.cover
  /\ toc        = NewConverter.toc
  /\ book_spine = NewConverter.book_spine
  /\ md_dirty   = NewConverter.md_dirty
  /\ md_calls   = NewConverter.md_calls
  /\ stdout     = NewConverter.stdout
  /\ dirs_made  = NewConverter.dirs_made
  /\ written    = NewConverter.written
  /\ arg_files  = NewConverter.arg_files
  /\ ret        = NewConverter.ret
  /\ last_op = "init"
  /\ calls = 0
  /\ md_content = <<>>
  /\ md_name = <<>>
  /\ title_out = Pending
  /\ parent_path \in Roots
  /\ img_rel \in Rels
  /\ img_item = NoImage

\* add_markdown_directory finds the image and registers it.
RegisterImage ==
  /\ img_item = NoImage
  /\ <<img_rel>> = find_images_glob({img_rel})
  /\ img_item' = ImageItem(img_rel, parent_path)
  /\ UNCHANGED << conv_vars, title_vars, parent_path, img_rel >>

NextImage == RegisterImage

SpecImage == InitImage /\ [][NextImage]_vars

\* ------------------------------------------------------------------------
\* Properties
\* ------------------------------------------------------------------------

Nav == [kind |-> "nav"]

IsChapterItem(it) == it.kind = "chapter"

IsCssItem(it) == it.kind = "css"

IsAddedLine(l) == l.line = "chapter added"

\* The lines add_markdown_file printed: one per Markdown file it was given.
IsFileLine(l) ==
  l.line = "chapter added" \/ (l.line = "failed to add file" /\ MarkdownMatches(l.name))

IsImageFailure(l) == l.line = "failed to add file" /\ ~MarkdownMatches(l.name)

Titles(chs) == [i \in 1..Len(chs) |-> chs[i].title]

Names(ls) == [i \in 1..Len(ls) |-> ls[i].name]

LastChapters(n) == SubSeq(chapters, Len(chapters) - n + 1, Len(chapters))

\* C1: the spine is the navigation entry followed by exactly the chapters, in
\* the order they were added: always, and in every call of the package
\* writer (whose spine is the navigation entry and the chapters there were
\* then); the chapters a call added are the files it reported as added, in
\* that order, and a directory's files are gone through in natural-sort
\* order.
C1_SpineIsNavThenChapters ==
  /\ spine = << Nav >> \o chapters
  /\ \A i \in 1..Len(written) :
       /\ Len(written[i].spine) >= 2
       /\ written[i].spine = << Nav >> \o SubSeq(chapters, 1, Len(written[i].spine) - 1)
       /\ Len(written[i].toc) = Len(written[i].spine) - 1
  /\ LET added == SelectSeq(stdout, IsAddedLine)
     IN  /\ Len(added) <= Len(chapters)
         /\ Titles(LastChapters(Len(added))) = Titles(added)
  /\ LET seen == Names(SelectSeq(stdout, IsFileLine))
     IN  \A i, j \in 1..Len(seen) :
           i < j => ~KeyLess(natural_sort_key(seen[j]), natural_sort_key(seen[i]))

\* C1 witness: main() ran on a directory of two good files and wrote a
\* three-entry spine and a two-entry table of contents, 2.md before
\* 10.markdown.
C1_Witness ==
  /\ last_op = "main"
  /\ Len(written) = 1
  /\ Len(written[1].spine) = 3
  /\ Len(written[1].toc) = 2
  /\ Titles(chapters) = << << "2" >>, << "1", "0" >> >>

ChapterName(k) == << "c", "h", "a", "p", "t", "e", "r", "_" >> \o Decimal(k)

DenseIdentifiers ==
  /\ \A k \in 1..Len(chapters) :
       /\ chapters[k].chapter_id = ChapterName(k)
       /\ chapters[k].file_name = ChapterName(k) \o << ".", "x", "h", "t", "m", "l" >>
  /\ \A j, k \in 1..Len(chapters) :
       j # k => /\ chapters[j].chapter_id # chapters[k].chapter_id
                /\ chapters[j].file_name # chapters[k].file_name
  /\ SelectSeq(items, IsChapterItem) = chapters
  /\ Tail(spine) = chapters

\* A step adds as many chapters as it reports added, and a failed
\* add_markdown_file leaves chapters, spine and manifest as they were.
FailureLeavesNothing ==
  /\ Len(chapters') = Len(chapters) + Len(SelectSeq(stdout', IsAddedLine))
  /\ SubSeq(chapters', 1, Len(chapters)) = chapters
  /\ (last_op' = "add_markdown_file" /\ ~ret') =>
       /\ chapters' = chapters
       /\ spine' = spine
       /\ items' = items

\* C2: the k-th chapter is chapter_k with file chapter_k.xhtml, identifiers
\* are distinct, chapters already added keep their place, and a file that
\* fails leaves no chapter, no spine entry and no manifest item.
C2_DenseIdentifiers == [](DenseIdentifiers) /\ [][FailureLeavesNothing]_vars

\* C2 witness: a directory whose first file failed and whose second file
\* became chapter_1.
C2_Witness ==
  /\ last_op = "add_markdown_directory"
  /\ Len(stdout) >= 2
  /\ stdout[1].line = "failed to add file"
  /\ stdout[2].line = "chapter added"
  /\ Len(chapters) = 1
  /\ chapters[1].chapter_id = ChapterName(1)

\* C3: add_markdown_directory returns true exactly when the call added a
\* chapter, and it went through every Markdown file of the sorted list,
\* whichever of them failed and whether or not an image failed.
C3_DirectoryResult ==
  [][last_op' = "add_markdown_directory" =>
       /\ ret' <=> Len(chapters') > Len(chapters)
       /\ Names(SelectSeq(stdout', IsFileLine)) = arg_files']_vars

\* C3 witness: a directory whose first file failed, whose second was added,
\* and whose image failed, returning true.
C3_Witness ==
  /\ last_op = "add_markdown_directory"
  /\ ret
  /\ Len(stdout) = 3
  /\ stdout[1].line = "failed to add file"
  /\ stdout[2].line = "chapter added"
  /\ IsImageFailure(stdout[3])

\* C4 as claimed: after main(), the package writer was called exactly when
\* a chapter was added, and without a chapter no directory was made.
C4_WriterIffChapter ==
  last_op = "main" =>
    /\ written # <<>> <=> chapters # <<>>
    /\ chapters = <<>> => dirs_made = {}

\* C4 as amended: after main(), generate_epub went to work exactly when a
\* chapter was added (also after a failed cover), the package writer was
\* called exactly when in addition the output directory was there or made,
\* and without a chapter nothing was made or written.
C4_WriterIffChapterAndDirectory ==
  last_op = "main" =>
    /\ book_spine # <<>> <=> chapters # <<>>
    /\ written # <<>> <=> (chapters # <<>> /\ dirs_made # {})
    /\ chapters = <<>> => (dirs_made = {} /\ written = <<>>)

\* C4 witness: main() wrote the package although the cover failed.
C4_Witness ==
  /\ last_op = "main"
  /\ \E i \in 1..Len(stdout) :
       stdout[i].line = "failed to add cover: name 'ext' is not defined"
  /\ Len(written) = 1
  /\ chapters # <<>>

\* C5, C6: what the documents say, read off their lines.
DocLines == Split(md_content, NL)

\* The document begins with a --- line that a later --- line closes.
HasFrontMatter ==
  /\ DocLines[1] = Dashes
  /\ \E i \in 2..Len(DocLines) : DocLines[i] = Dashes

BlockEnd == CHOOSE i \in 2..Len(DocLines) :
              DocLines[i] = Dashes /\ \A j \in 2..(i - 1) : DocLines[j] # Dashes

TitleKey == << "t", "i", "t", "l", "e", ":", " " >>

IsTitleEntry(l) == StartsWith(l, TitleKey) /\ Strip(Drop(l, Len(TitleKey))) # <<>>

HasFrontMatterTitle ==
  HasFrontMatter /\ \E i \in 2..(BlockEnd - 1) : IsTitleEntry(DocLines[i])

\* A block's last title entry is the one a key/value parser keeps.
FrontMatterTitleValue ==
  LET i == CHOOSE k \in 2..(BlockEnd - 1) :
             IsTitleEntry(DocLines[k])
             /\ \A m \in (k + 1)..(BlockEnd - 1) : ~IsTitleEntry(DocLines[m])
  IN  Strip(Drop(DocLines[i], Len(TitleKey)))

HasHeadingLine == \E i \in 1..Len(DocLines) : StartsWith(DocLines[i], << "#", " " >>)

FirstHeadingText ==
  LET i == CHOOSE k \in 1..Len(DocLines) :
             StartsWith(DocLines[k], << "#", " " >>)
             /\ \A m \in 1..(k - 1) : ~StartsWith(DocLines[m], << "#", " " >>)
  IN  Strip(Drop(DocLines[i], 2))

\* C5: a front-matter title is the title, whatever headings follow.
C5_FrontMatterWins ==
  (title_out.done /\ HasFrontMatterTitle) =>
    (~title_out.raised /\ title_out.title = FrontMatterTitleValue)

\* C6: without a front-matter title, the first "# " line is the title,
\* whatever precedes it, and resolution does not fail.
C6_FirstHeadingWins ==
  (title_out.done /\ ~HasFrontMatterTitle /\ HasHeadingLine /\ FirstHeadingText # <<>>) =>
    (~title_out.raised /\ title_out.title = FirstHeadingText)

IsImageItem(it) == it.kind = "image"

\* C7: add_cover_image sets the cover and reports success for a file that
\* is there and readable, reports and changes nothing for a missing one,
\* and adds no image to the manifest.
C7_CoverAttached ==
  [][last_op' = "add_cover_image" =>
       /\ stdout'[1].line = "cover image not found" =>
            (~ret' /\ cover' = cover /\ items' = items /\ chapters' = chapters /\ spine' = spine)
       /\ stdout'[1].line = "failed to add cover: name 'ext' is not defined" =>
            (ret' /\ cover' # "none")
       /\ SelectSeq(items', IsImageItem) = SelectSeq(items, IsImageItem)]_vars

\* C8: an image is registered under its path relative to the root.
C8_RelativePath ==
  img_item # NoImage => img_item.file_name = img_rel

\* C9: no convert() is called on a parser that holds the state of an
\* earlier convert(): within a call each convert() after the first follows
\* a reset(), and the first finds the parser reset.
C9_ResetBetweenConverts ==
  [][\A i \in 1..Len(md_calls') :
       md_calls'[i] = "convert" =>
         IF i = 1 THEN ~md_dirty ELSE md_calls'[i - 1] = "reset"]_vars

\* C10: after generate_epub the manifest holds at most one stylesheet.
C10_OneStylesheet ==
  last_op = "generate_epub" => Len(SelectSeq(items, IsCssItem)) <= 1

====
